---- MODULE Spec2Model ----
(***************************************************************************)
(* Streaming session of the Deepgram STT plugin (src/index.ts):            *)
(* DeepgramSession, the socket it owns, and DeepgramProvider.createSession.*)
(* Strings are sequences of one-character strings, so that trim() and the  *)
(* space-joined concatenation are computed, not assumed.                   *)
(***************************************************************************)
EXTENDS Integers, Sequences, FiniteSets, TLC

(* ----------------------------- bounds ---------------------------------- *)
MaxResults == 2     \* Results frames that carry an alternative
MaxWaits == 2       \* waitForTranscript() calls on the session
MaxCloseStreams == 2  \* CloseStream frames passed to the socket

\* A run spends its budget on inbound Results frames or on waits: it sees
\* up to MaxResults frames around one wait, or one frame around up to
\* MaxWaits waits.
Quotas ==
    { [results |-> MaxResults, waits |-> 1],
      [results |-> 1, waits |-> MaxWaits] }

(* ----------------------------- strings --------------------------------- *)
Space == " "
Empty == << >>

\* raw transcript fragments a Results frame may carry; an absent or empty
\* transcript goes the way of the blank one (text is "" after trim)
Fragments ==
    { <<" ">>, <<"a">>, <<" ", "b", " ">> }

RECURSIVE TrimStart(_)
TrimStart(s) ==
    IF s = Empty THEN Empty
    ELSE IF Head(s) = Space THEN TrimStart(Tail(s)) ELSE s

RECURSIVE TrimEnd(_)
TrimEnd(s) ==
    IF s = Empty THEN Empty
    ELSE IF s[Len(s)] = Space THEN TrimEnd(SubSeq(s, 1, Len(s) - 1)) ELSE s

\* String.prototype.trim
Trim(s) == TrimEnd(TrimStart(s))

(* ----------------------------- messages -------------------------------- *)
\* DeepgramStreamMessage, plus a frame JSON.parse rejects
ResultsMsgs ==
    [type : {"Results"}, hasAlt : {TRUE}, transcript : Fragments,
     is_final : BOOLEAN, speech_final : BOOLEAN]

NoAltMsgs ==
    [type : {"Results"}, hasAlt : {FALSE}, transcript : {<<" ">>},
     is_final : BOOLEAN, speech_final : {FALSE}]

OtherMsgs ==
    [type : {"Metadata", "SpeechStarted", "UtteranceEnd", "Malformed"},
     hasAlt : {FALSE}, transcript : {<<" ">>},
     is_final : {FALSE}, speech_final : {FALSE}]

Messages == ResultsMsgs \cup NoAltMsgs \cup OtherMsgs

(* ----------------------------- provider configuration ------------------ *)
MinTimeoutMs == 1000
MaxTimeoutMs == 300000
DefaultTimeoutMs == 30000

\* a value of a number-typed option: a number, NaN, or undefined
Number(n) == [kind |-> "number", value |-> n]
NaN == [kind |-> "NaN", value |-> 0]
Undefined == [kind |-> "undefined", value |-> 0]

\* an option the caller's object does not have
Absent == [kind |-> "absent", value |-> 0]

\* x < n and x > n of JavaScript: false when x does not convert to a number
Less(x, n) == x.kind = "number" /\ x.value < n
Greater(x, n) == x.kind = "number" /\ x.value > n

validModels == {"nova-3", "nova-2", "nova", "enhanced", "base"}

DEFAULT_CONFIG == [model |-> "nova-3", timeoutMs |-> Number(DefaultTimeoutMs)]

\* DeepgramConfig objects handed to the constructor ("<absent>": no such key)
ConfigInputs ==
    [apiKey : {"<absent>", "", "key"},
     model : validModels \cup {"<absent>", "whisper", "Nova-3", ""},
     timeoutMs : {Absent, Undefined, NaN}
                 \cup {Number(n) : n \in {0, MinTimeoutMs - 1, MinTimeoutMs,
                                          MaxTimeoutMs, MaxTimeoutMs + 1}}]

\* process.env.DEEPGRAM_API_KEY ("": not set)
Envs == {"", "envkey"}

\* config.apiKey || process.env.DEEPGRAM_API_KEY || ""
ApiKeyOf(c, env) ==
    IF c.apiKey \notin {"<absent>", ""} THEN c.apiKey ELSE env

\* { ...DEFAULT_CONFIG, ...config, apiKey }
Merged(c, env) ==
    [apiKey    |-> ApiKeyOf(c, env),
     model     |-> IF c.model = "<absent>" THEN DEFAULT_CONFIG.model ELSE c.model,
     timeoutMs |-> IF c.timeoutMs = Absent THEN DEFAULT_CONFIG.timeoutMs
                   ELSE c.timeoutMs]

\* the configurations the constructor accepts: it throws without an API key
Constructed ==
    { Merged(p[1], p[2]) :
        p \in { q \in ConfigInputs \X Envs : ApiKeyOf(q[1], q[2]) # "" } }

(* ----------------------------- HTTP ------------------------------------ *)
MethodNotAllowed == 405

Statuses == {200, 201, 299, 300, 401, 404, MethodNotAllowed, 500}

\* Response.ok
ResOk(status) == status \in 200..299

\* response bodies: not JSON, JSON without a top transcript, JSON with one
NoJson == [parses |-> FALSE, hasTranscript |-> FALSE, transcript |-> Empty]
NoTranscript == [parses |-> TRUE, hasTranscript |-> FALSE, transcript |-> Empty]
Bodies ==
    {NoJson, NoTranscript}
    \cup [parses : {TRUE}, hasTranscript : {TRUE},
          transcript : Fragments \cup {Empty, <<"a", " ", "b">>}]

\* what fetchWithTimeout comes back with: a response, or it throws because
\* the request failed or the timer aborted it
FetchResults ==
    [kind : {"response"}, status : Statuses, body : Bodies]
    \cup [kind : {"networkError", "aborted"}, status : {0}, body : {NoJson}]

NoFetch == [kind |-> "none", status |-> 0, body |-> NoJson]

\* a provider call: threw is "none" when it returned and status the HTTP
\* status its error message names (0: none); text is the string transcribe()
\* returned, healthy the boolean healthCheck() returned
Call(op, res, threw, status, text, healthy) ==
    [op |-> op, res |-> res, threw |-> threw, status |-> status,
     text |-> text, healthy |-> healthy]

NoCall == Call("none", NoFetch, "none", 0, Empty, FALSE)

(* ----------------------------- state ----------------------------------- *)
VARIABLES
    quota,              \* the run's budget of Results frames and waits (never changes)
    vadEnabled,         \* options.vadEnabled
    viaProvider,        \* TRUE: built by createSession; FALSE: built and never connected
    pc,                 \* createSession: "constructed", "connecting", "returned", "failed"
    connectPromise,     \* promise returned by connect(): "none", "pending", "resolved", "rejected"
    connectSettles,     \* how many times connect()'s resolve/reject were invoked
    onOpenListener,     \* once("open", onOpen) still registered
    onErrorListener,    \* once("error", onError) still registered
    handlers,           \* setupMessageHandlers() has run
    openEmitted,        \* the socket has emitted "open"
    ws,                 \* this.ws: "null" or "socket"
    readyState,         \* of the socket: "NONE", "CONNECTING", "OPEN", "CLOSING", "CLOSED"
    partialCallback,    \* this.partialCallback is set
    finalTranscript,    \* this.finalTranscript
    ended,              \* this.ended
    resolveTranscript,  \* this.resolveTranscript: 0 (undefined) or the wait it settles
    rejectTranscript,   \* this.rejectTranscript:  0 (undefined) or the wait it settles
    waits,              \* promises returned by waitForTranscript(), in call order
    closeStreams,       \* number of CloseStream frames passed to ws.send()
    closeCalls,         \* number of ws.close() calls
    effect,             \* what the step just taken did towards its caller and the socket:
                        \* threw "notConnected" or "ended", sent "audio" or "CloseStream",
                        \* logged a "parseError", or "none"
    delivered,          \* chunks handed to the partial callback, in order
    received,           \* the Results frames that carried an alternative, in order of arrival
    config,             \* DeepgramProvider.config: apiKey, model, timeoutMs
    lastCall            \* the provider call made last: its fetch result and what it returned or threw

vars == << quota, vadEnabled, viaProvider, pc, connectPromise, connectSettles,
           onOpenListener, onErrorListener, handlers, openEmitted, ws,
           readyState, partialCallback, finalTranscript, ended,
           resolveTranscript, rejectTranscript, waits, closeStreams, closeCalls,
           effect, delivered, received, config, lastCall >>

connVars == << pc, connectPromise, connectSettles, onOpenListener,
               onErrorListener, handlers, openEmitted >>

ghostVars == << received >>

provVars == << config, lastCall >>

sessionVars ==
    << quota, vadEnabled, viaProvider, pc, connectPromise, connectSettles,
       onOpenListener, onErrorListener, handlers, openEmitted, ws,
       readyState, partialCallback, finalTranscript, ended,
       resolveTranscript, rejectTranscript, waits, closeStreams, closeCalls,
       effect, delivered, received >>

SessionInit ==
    /\ quota \in Quotas
    /\ vadEnabled \in BOOLEAN
    /\ viaProvider \in BOOLEAN
    /\ pc = "constructed"
    /\ connectPromise = "none"
    /\ connectSettles = 0
    /\ onOpenListener = FALSE
    /\ onErrorListener = FALSE
    /\ handlers = FALSE
    /\ openEmitted = FALSE
    /\ ws = "null"
    /\ readyState = "NONE"
    /\ partialCallback = FALSE
    /\ finalTranscript = Empty
    /\ ended = FALSE
    /\ resolveTranscript = 0
    /\ rejectTranscript = 0
    /\ waits = << >>
    /\ closeStreams = 0
    /\ closeCalls = 0
    /\ effect = "none"
    /\ delivered = << >>
    /\ received = << >>

\* a provider built with the default options, and the session it will create
Init ==
    /\ SessionInit
    /\ config = Merged([apiKey |-> "key", model |-> "<absent>", timeoutMs |-> Absent], "")
    /\ lastCall = NoCall

(* ----------------------------- promises -------------------------------- *)
\* connect()'s promise after one more call of its resolve or reject
Settle(p, outcome) == IF p = "pending" THEN outcome ELSE p

\* a wait: st is "pending", "resolved", "timeout" or "error"; val the text it
\* resolved with; timer whether its timeout is armed; early whether it was
\* asked for on a connected session that close() had not yet run on
NewWait(isEarly) ==
    [st |-> "pending", val |-> Empty, timer |-> TRUE, early |-> isEarly]

\* the wrapper stored in this.resolveTranscript: clearTimeout, then resolve
WrappedResolve(W, w, text) ==
    [W EXCEPT ![w] = [st    |-> IF @.st = "pending" THEN "resolved" ELSE @.st,
                      val   |-> IF @.st = "pending" THEN text ELSE @.val,
                      timer |-> FALSE,
                      early |-> @.early]]

\* the promise's own reject, as stored in this.rejectTranscript and used by the timer
Reject(W, w, reason) ==
    [W EXCEPT ![w] = [st    |-> IF @.st = "pending" THEN reason ELSE @.st,
                      val   |-> @.val,
                      timer |-> @.timer,
                      early |-> @.early]]

\* finishTranscript(): the waits after this.resolveTranscript?.(text)
finishTranscript ==
    IF resolveTranscript = 0 THEN waits
    ELSE WrappedResolve(waits, resolveTranscript, Trim(finalTranscript))

(* ----------------------------- socket ---------------------------------- *)
\* WebSocket.close() seen through readyState
WsClose(rs) == IF rs \in {"CONNECTING", "OPEN"} THEN "CLOSING" ELSE rs

\* the continuation of `await session.connect()` runs before any other event
MicrotaskPending == pc = "connecting" /\ connectPromise # "pending"

\* the caller holds the session object
Held == IF viaProvider THEN pc = "returned" ELSE TRUE

(* ----------------------------- connect --------------------------------- *)
\* createSession: session.connect() up to the returned promise
connect ==
    /\ viaProvider
    /\ pc = "constructed"
    /\ pc' = "connecting"
    /\ ws' = "socket"
    /\ readyState' = "CONNECTING"
    /\ connectPromise' = "pending"
    /\ onOpenListener' = TRUE
    /\ onErrorListener' = TRUE
    /\ effect' = "none"
    /\ UNCHANGED << quota, vadEnabled, viaProvider, connectSettles, handlers,
                    openEmitted, partialCallback, finalTranscript, ended,
                    resolveTranscript, rejectTranscript, waits, closeStreams,
                    closeCalls, delivered, ghostVars, provVars >>

\* onOpen that leaves connect's error listener registered
onOpen_keepsErrorListener ==
    /\ readyState = "CONNECTING"
    /\ readyState' = "OPEN"
    /\ openEmitted' = TRUE
    /\ IF onOpenListener
       THEN /\ onOpenListener' = FALSE
            /\ handlers' = TRUE
            /\ connectPromise' = Settle(connectPromise, "resolved")
            /\ connectSettles' = connectSettles + 1
       ELSE UNCHANGED << onOpenListener, handlers, connectPromise, connectSettles >>
    /\ effect' = "none"
    /\ UNCHANGED << quota, vadEnabled, viaProvider, pc, ws, partialCallback,
                    finalTranscript, ended, resolveTranscript, onErrorListener,
                    rejectTranscript, waits, closeStreams, closeCalls, delivered,
                    ghostVars, provVars >>

\* the socket emits "open": onOpen, when still registered
onOpen ==
    /\ readyState = "CONNECTING"
    /\ readyState' = "OPEN"
    /\ openEmitted' = TRUE
    /\ IF onOpenListener
       THEN /\ onOpenListener' = FALSE
            /\ onErrorListener' = FALSE
            /\ handlers' = TRUE
            /\ connectPromise' = Settle(connectPromise, "resolved")
            /\ connectSettles' = connectSettles + 1
       ELSE UNCHANGED << onOpenListener, onErrorListener, handlers,
                         connectPromise, connectSettles >>
    /\ effect' = "none"
    /\ UNCHANGED << quota, vadEnabled, viaProvider, pc, ws, partialCallback,
                    finalTranscript, ended, resolveTranscript,
                    rejectTranscript, waits, closeStreams, closeCalls, delivered, ghostVars, provVars >>

\* an error event that no handler of setupMessageHandlers listens to
onError_swallowed ==
    /\ ~MicrotaskPending
    /\ \/ readyState = "CONNECTING"
       \/ openEmitted /\ readyState \in {"OPEN", "CLOSING"}
    /\ readyState' = "CLOSING"
    /\ IF onErrorListener
       THEN /\ onErrorListener' = FALSE
            /\ onOpenListener' = FALSE
            /\ connectPromise' = Settle(connectPromise, "rejected")
            /\ connectSettles' = connectSettles + 1
       ELSE UNCHANGED << onErrorListener, onOpenListener, connectPromise,
                         connectSettles >>
    /\ effect' = "none"
    /\ UNCHANGED << quota, vadEnabled, viaProvider, pc, handlers, openEmitted, ws,
                    partialCallback, finalTranscript, ended, waits,
                    resolveTranscript, rejectTranscript, closeStreams, closeCalls,
                    delivered, ghostVars, provVars >>

\* the socket emits "error": onError when still registered, and the
\* handler of setupMessageHandlers when installed
onError ==
    /\ ~MicrotaskPending
    /\ \/ readyState = "CONNECTING"
       \/ openEmitted /\ readyState \in {"OPEN", "CLOSING"}
    /\ readyState' = "CLOSING"
    /\ IF onErrorListener
       THEN /\ onErrorListener' = FALSE
            /\ onOpenListener' = FALSE
            /\ connectPromise' = Settle(connectPromise, "rejected")
            /\ connectSettles' = connectSettles + 1
       ELSE UNCHANGED << onErrorListener, onOpenListener, connectPromise,
                         connectSettles >>
    /\ waits' = IF handlers /\ rejectTranscript # 0
                THEN Reject(waits, rejectTranscript, "error")
                ELSE waits
    /\ effect' = "none"
    /\ UNCHANGED << quota, vadEnabled, viaProvider, pc, handlers, openEmitted, ws,
                    partialCallback, finalTranscript, ended,
                    resolveTranscript, rejectTranscript, closeStreams, closeCalls,
                    delivered, ghostVars, provVars >>

\* createSession that returns the session without awaiting connect()
createSession_noAwait ==
    /\ pc = "connecting"
    /\ pc' = "returned"
    /\ effect' = "none"
    /\ UNCHANGED << quota, vadEnabled, viaProvider, connectPromise, connectSettles,
                    onOpenListener, onErrorListener, handlers, openEmitted,
                    ws, readyState, partialCallback, finalTranscript, ended,
                    resolveTranscript, rejectTranscript, waits, closeStreams,
                    closeCalls, delivered, ghostVars, provVars >>

\* createSession: the code after `await session.connect()`
createSession ==
    /\ pc = "connecting"
    /\ connectPromise # "pending"
    /\ pc' = IF connectPromise = "resolved" THEN "returned" ELSE "failed"
    /\ effect' = "none"
    /\ UNCHANGED << quota, vadEnabled, viaProvider, connectPromise, connectSettles,
                    onOpenListener, onErrorListener, handlers, openEmitted,
                    ws, readyState, partialCallback, finalTranscript, ended,
                    resolveTranscript, rejectTranscript, waits, closeStreams,
                    closeCalls, delivered, ghostVars, provVars >>

(* ----------------------------- inbound --------------------------------- *)
IsResults(m) == m.type = "Results" /\ m.hasAlt

\* alt.transcript?.trim() || ""
TextOf(m) == Trim(m.transcript)

\* the tag computed from is_final alone
IsFinal_ignoresSpeechFinal(m) == m.is_final

\* message.is_final || message.speech_final || false
IsFinal(m) == m.is_final \/ m.speech_final

\* the append without the separator
AppendFinal_noSeparator(acc, text) == acc \o text

\* this.finalTranscript += (this.finalTranscript ? " " : "") + text
AppendFinal(acc, text) ==
    acc \o (IF acc # Empty THEN <<Space>> ELSE Empty) \o text

\* a Results frame with is_final or speech_final set
MarkedFinal(m) ==
    m.type = "Results" /\ m.hasAlt /\ (m.is_final \/ m.speech_final)

\* the utterance-boundary test without the end-of-audio flag
UtteranceFinalizes_anyTime == vadEnabled

\* this.options.vadEnabled && this.ended
UtteranceFinalizes == vadEnabled /\ ended

\* a catch block that fails the wait
OnParseFailure_rejects(W) ==
    IF rejectTranscript # 0 THEN Reject(W, rejectTranscript, "error") ELSE W

\* the catch block of the "message" handler: logs, and leaves the waits W alone
OnParseFailure(W) == W

\* the "message" handler of setupMessageHandlers
onMessage(m) ==
    /\ ~MicrotaskPending
    /\ handlers
    /\ readyState \in {"OPEN", "CLOSING"}
    /\ IsResults(m) => Len(received) < quota.results
    /\ received' = IF IsResults(m)
                   THEN Append(received, [transcript |-> m.transcript,
                                          final |-> MarkedFinal(m)])
                   ELSE received
    /\ IF IsResults(m) /\ TextOf(m) # Empty
       THEN /\ finalTranscript' = IF IsFinal(m)
                                  THEN AppendFinal(finalTranscript, TextOf(m))
                                  ELSE finalTranscript
            /\ delivered' = IF partialCallback
                            THEN Append(delivered,
                                        [text |-> TextOf(m), isFinal |-> IsFinal(m)])
                            ELSE delivered
            /\ UNCHANGED waits
       ELSE /\ UNCHANGED << finalTranscript, delivered >>
            /\ waits' = IF m.type = "Malformed"
                        THEN OnParseFailure(waits)
                        ELSE IF /\ ~IsResults(m)
                                /\ m.type = "UtteranceEnd"
                                /\ UtteranceFinalizes
                             THEN finishTranscript
                             ELSE waits
    /\ effect' = IF m.type = "Malformed" THEN "parseError" ELSE "none"
    /\ UNCHANGED << quota, vadEnabled, viaProvider, connVars, ws, readyState,
                    partialCallback, ended, resolveTranscript,
                    rejectTranscript, closeStreams, closeCalls, provVars >>

\* the close handler's test without the end-of-audio flag
CloseFinalizes_anyTime == resolveTranscript # 0

\* this.ended && this.resolveTranscript
CloseFinalizes == ended /\ resolveTranscript # 0

\* the socket emits "close": the "close" handler of setupMessageHandlers
onClose ==
    /\ ~MicrotaskPending
    /\ readyState \in {"OPEN", "CLOSING"}
    /\ readyState' = "CLOSED"
    /\ waits' = IF handlers /\ CloseFinalizes
                THEN finishTranscript
                ELSE waits
    /\ effect' = "none"
    /\ UNCHANGED << quota, vadEnabled, viaProvider, connVars, ws, partialCallback,
                    finalTranscript, ended, resolveTranscript,
                    rejectTranscript, closeStreams, closeCalls, delivered, ghostVars, provVars >>

(* ----------------------------- caller ---------------------------------- *)
\* !this.ws || this.ws.readyState !== WebSocket.OPEN
NotConnected == ws = "null" \/ readyState # "OPEN"

\* sendAudio without the check of this.ended
sendAudio_noEndedCheck ==
    /\ Held
    /\ IF NotConnected
       THEN effect' = "notConnected"
       ELSE effect' = "audio"
    /\ UNCHANGED << quota, vadEnabled, viaProvider, connVars, ws, readyState,
                    partialCallback, finalTranscript, ended,
                    resolveTranscript, rejectTranscript, waits, closeStreams,
                    closeCalls, delivered, ghostVars, provVars >>

sendAudio ==
    /\ Held
    /\ IF NotConnected
       THEN effect' = "notConnected"
       ELSE IF ended
            THEN effect' = "ended"
            ELSE effect' = "audio"
    /\ UNCHANGED << quota, vadEnabled, viaProvider, connVars, ws, readyState,
                    partialCallback, finalTranscript, ended,
                    resolveTranscript, rejectTranscript, waits, closeStreams,
                    closeCalls, delivered, ghostVars, provVars >>

endAudio ==
    /\ Held
    /\ ended' = TRUE
    /\ IF ~NotConnected
       THEN /\ closeStreams < MaxCloseStreams
            /\ closeStreams' = closeStreams + 1
            /\ effect' = "CloseStream"
       ELSE /\ UNCHANGED closeStreams
            /\ effect' = "none"
    /\ UNCHANGED << quota, vadEnabled, viaProvider, connVars, ws, readyState,
                    partialCallback, finalTranscript, resolveTranscript,
                    rejectTranscript, waits, closeCalls, delivered, ghostVars, provVars >>

onPartial ==
    /\ Held
    /\ ~partialCallback
    /\ partialCallback' = TRUE
    /\ effect' = "none"
    /\ UNCHANGED << quota, vadEnabled, viaProvider, connVars, ws, readyState,
                    finalTranscript, ended, resolveTranscript,
                    rejectTranscript, waits, closeStreams, closeCalls, delivered, ghostVars, provVars >>

waitForTranscript ==
    /\ Held
    /\ Len(waits) < quota.waits
    /\ waits' = Append(waits, NewWait(closeCalls = 0 /\ ws # "null"))
    /\ resolveTranscript' = Len(waits) + 1
    /\ rejectTranscript' = Len(waits) + 1
    /\ effect' = "none"
    /\ UNCHANGED << quota, vadEnabled, viaProvider, connVars, ws, readyState,
                    partialCallback, finalTranscript, ended, closeStreams,
                    closeCalls, delivered, ghostVars, provVars >>

\* close() that keeps its reference to the socket
close_keepsRef(W) ==
    /\ ws' = ws
    /\ ended' = TRUE
    /\ IF ws # "null"
       THEN /\ closeCalls' = closeCalls + 1
            /\ readyState' = WsClose(readyState)
       ELSE UNCHANGED << closeCalls, readyState >>
    /\ waits' = W

\* close() on waits W: shared by the caller's call and the wait timer
close(W) ==
    /\ ws' = "null"
    /\ ended' = TRUE
    /\ IF ws # "null"
       THEN /\ closeCalls' = closeCalls + 1
            /\ readyState' = WsClose(readyState)
       ELSE UNCHANGED << closeCalls, readyState >>
    /\ waits' = W

CallClose ==
    /\ Held
    /\ close(waits)
    /\ effect' = "none"
    /\ UNCHANGED << quota, vadEnabled, viaProvider, connVars, partialCallback,
                    finalTranscript, resolveTranscript, rejectTranscript,
                    closeStreams, delivered, ghostVars, provVars >>

\* a timer that closes the session and forgets to reject the wait
onTimeout_closesOnly(w) ==
    /\ ~MicrotaskPending
    /\ w \in DOMAIN waits
    /\ waits[w].timer
    /\ close([waits EXCEPT ![w].timer = FALSE])
    /\ effect' = "none"
    /\ UNCHANGED << quota, vadEnabled, viaProvider, connVars, partialCallback,
                    finalTranscript, resolveTranscript, rejectTranscript,
                    closeStreams, delivered, ghostVars, provVars >>

\* the setTimeout callback of waitForTranscript for wait w
onTimeout(w) ==
    /\ ~MicrotaskPending
    /\ w \in DOMAIN waits
    /\ waits[w].timer
    /\ close(Reject([waits EXCEPT ![w].timer = FALSE], w, "timeout"))
    /\ effect' = "none"
    /\ UNCHANGED << quota, vadEnabled, viaProvider, connVars, partialCallback,
                    finalTranscript, resolveTranscript, rejectTranscript,
                    closeStreams, delivered, ghostVars, provVars >>

(* ----------------------------- system ---------------------------------- *)
Next ==
    \/ connect
    \/ onOpen
    \/ onError
    \/ createSession
    \/ \E m \in Messages : onMessage(m)
    \/ onClose
    \/ sendAudio
    \/ endAudio
    \/ onPartial
    \/ waitForTranscript
    \/ CallClose
    \/ \E w \in 1..MaxWaits : onTimeout(w)

Spec == Init /\ [][Next]_vars

\* the runs that spend their budget on waits (a Results frame touches no wait)
LiveInit == Init /\ quota.waits = MaxWaits

\* the session with its timers: a timeout armed by setTimeout and not
\* cleared is eventually run by the event loop
LiveSpec ==
    LiveInit /\ [][Next]_vars /\ \A w \in 1..MaxWaits : WF_vars(onTimeout(w))

(* ----------------------------- provider -------------------------------- *)
\* what validateConfig() throws on configuration c, "none" when it returns
validateConfigThrows(c) ==
    IF c.apiKey = "" THEN "keyRequired"
    ELSE IF c.model \notin validModels THEN "invalidModel"
    ELSE IF Less(c.timeoutMs, MinTimeoutMs) \/ Greater(c.timeoutMs, MaxTimeoutMs)
         THEN "invalidTimeout"
         ELSE "none"

validateConfig ==
    /\ lastCall' = Call("validateConfig", NoFetch, validateConfigThrows(config),
                        0, Empty, FALSE)
    /\ UNCHANGED << config, sessionVars >>

\* the top transcript taken as it comes, without trim()
TopTranscript_untrimmed(body) ==
    IF body.hasTranscript THEN body.transcript ELSE Empty

\* payload.results?.channels?.[0]?.alternatives?.[0]?.transcript?.trim(),
\* with undefined as the empty string (both are falsy)
TopTranscript(body) ==
    IF body.hasTranscript THEN Trim(body.transcript) ELSE Empty

\* transcribe() on fetch result r: the call it amounts to
Transcribed(r) ==
    IF r.kind # "response" THEN Call("transcribe", r, r.kind, 0, Empty, FALSE)
    ELSE IF ~ResOk(r.status)
         THEN Call("transcribe", r, "httpStatus", r.status, Empty, FALSE)
    ELSE IF ~r.body.parses THEN Call("transcribe", r, "jsonError", 0, Empty, FALSE)
    ELSE IF TopTranscript(r.body) = Empty
         THEN Call("transcribe", r, "missingTranscript", 0, Empty, FALSE)
         ELSE Call("transcribe", r, "none", 0, TopTranscript(r.body), FALSE)

transcribe(r) ==
    /\ lastCall' = Transcribed(r)
    /\ UNCHANGED << config, sessionVars >>

\* a probe that counts only success statuses as healthy
Healthy_okOnly(r) == r.kind = "response" /\ ResOk(r.status)

\* res.status === 405 || res.ok, and false from the catch
Healthy(r) ==
    r.kind = "response" /\ (r.status = MethodNotAllowed \/ ResOk(r.status))

healthCheck(r) ==
    /\ lastCall' = Call("healthCheck", r, "none", 0, Empty, Healthy(r))
    /\ UNCHANGED << config, sessionVars >>

\* any constructed provider, before a session is asked for
ProviderInit ==
    /\ SessionInit
    /\ quota = [results |-> MaxResults, waits |-> 1]
    /\ ~vadEnabled
    /\ viaProvider
    /\ config \in Constructed
    /\ lastCall = NoCall

ProviderNext ==
    \/ validateConfig
    \/ \E r \in FetchResults : transcribe(r)
    \/ \E r \in FetchResults : healthCheck(r)

ProviderSpec == ProviderInit /\ [][ProviderNext]_vars

(* ----------------------------- claims ---------------------------------- *)
Waits == DOMAIN waits

\* the session's stored wait is unsettled
Outstanding == resolveTranscript # 0 /\ waits[resolveTranscript].st = "pending"

Threw == {"notConnected", "ended"}

\* C1: sendAudio() throws and sends nothing when the transport is absent or
\* not open or end-of-audio was signalled; otherwise it sends the chunk as one
\* audio frame. It never returns silently without sending.
C1_SendAudioFailsOrForwards ==
    [][sendAudio =>
         /\ closeStreams' = closeStreams
         /\ IF ws = "null" \/ readyState # "OPEN" \/ ended
            THEN effect' \in Threw
            ELSE effect' = "audio"]_vars

\* sendAudio() after endAudio() on an open transport has thrown
C1_Witness ==
    effect = "ended" /\ closeStreams = 1 /\ readyState = "OPEN" /\ ws # "null"

\* the session after a forced close: reference dropped, ended, socket closing or closed
ForceClosed ==
    ws = "null" /\ ended /\ readyState \notin {"CONNECTING", "OPEN"}

\* C2 as stated: when the timer of the session's wait fires with no
\* finalizing event since the wait was asked for (its timer is still armed and
\* it is still the stored wait), the wait is rejected with the timeout error
\* and the session is force-closed.
C2_Original ==
    [][\A w \in 1..MaxWaits :
         (onTimeout(w) /\ resolveTranscript = w) =>
            (waits'[w].st = "timeout" /\ ForceClosed')]_vars

UtteranceEndMsg == CHOOSE m \in OtherMsgs : m.type = "UtteranceEnd"

\* C3: an UtteranceEnd frame that finds the stored wait unsettled resolves it
\* with the accumulated final text, with no transport close, when VAD is
\* enabled and end-of-audio was signalled; otherwise it leaves the waits alone.
C3_UtteranceEndFinalizes ==
    [][(onMessage(UtteranceEndMsg) /\ Outstanding) =>
         IF vadEnabled /\ ended
         THEN /\ waits'[resolveTranscript].st = "resolved"
              /\ waits'[resolveTranscript].val = finalTranscript
              /\ readyState' = readyState
         ELSE waits' = waits]_vars

\* a wait resolved with a non-empty text while the transport is still open
C3_Witness ==
    /\ vadEnabled /\ readyState = "OPEN"
    /\ \E w \in Waits : waits[w].st = "resolved" /\ waits[w].val # Empty

\* C4: a transport close that finds the stored wait unsettled resolves it with
\* the accumulated final text if end-of-audio was signalled and leaves the
\* waits alone if it was not; once the transport has closed, an unsettled wait
\* can only end by its own timeout.
C4_CloseFinalizesOnlyAfterEnd ==
    [][/\ (onClose /\ handlers /\ Outstanding) =>
            IF ended
            THEN /\ waits'[resolveTranscript].st = "resolved"
                 /\ waits'[resolveTranscript].val = finalTranscript
            ELSE waits' = waits
       /\ readyState = "CLOSED" =>
            \A w \in Waits :
               waits[w].st = "pending" => waits'[w].st \in {"pending", "timeout"}
      ]_vars

\* without VAD, a wait resolved with a non-empty text by the transport close
C4_Witness ==
    /\ ~vadEnabled /\ readyState = "CLOSED"
    /\ \E w \in Waits : waits[w].st = "resolved" /\ waits[w].val # Empty

\* C5 as stated: a wait that was outstanding when close() ran is not
\* afterwards resolved as if the transcript had completed.
C5_CloseNeverResolves ==
    [][\A w \in Waits :
         (waits[w].early /\ closeCalls > 0 /\ waits[w].st = "pending") =>
            waits'[w].st # "resolved"]_vars

\* the fragments of the Results frames marked final, trimmed, empty ones dropped
FinalTexts ==
    SelectSeq(received, LAMBDA r : r.final /\ Trim(r.transcript) # Empty)

RECURSIVE JoinTrimmed(_)
JoinTrimmed(R) ==
    IF R = << >> THEN Empty
    ELSE IF Len(R) = 1 THEN Trim(R[1].transcript)
    ELSE Trim(R[1].transcript) \o <<Space>> \o JoinTrimmed(Tail(R))

IsPrefix(a, b) == Len(a) <= Len(b) /\ SubSeq(b, 1, Len(a)) = a

C6_Text ==
    /\ finalTranscript = JoinTrimmed(FinalTexts)
    /\ finalTranscript # Empty =>
          Head(finalTranscript) # Space /\ finalTranscript[Len(finalTranscript)] # Space

\* the step took in no Results frame marked final
NoFinalArrives ==
    received' = received \/ ~received'[Len(received')].final

C6_Step ==
    /\ IsPrefix(finalTranscript, finalTranscript')
    /\ NoFinalArrives => finalTranscript' = finalTranscript

\* C6: the accumulated final text is the single-space join, in arrival order,
\* of the trimmed non-empty fragments of the Results frames marked final, with
\* no leading or trailing space; it only grows by a suffix, and frames not
\* marked final leave it unchanged.
C6_AccumulatedTextIsJoin == [](C6_Text) /\ [][C6_Step]_vars

\* finals "a" then " b " have arrived: the text is "a b"
C6_Witness ==
    /\ finalTranscript = <<"a", " ", "b">>
    /\ Len(FinalTexts) = 2

\* C7 as stated: on a session returned by createSession at most one wait is
\* unsettled at any time.
C7_AtMostOneOutstanding ==
    pc = "returned" =>
        Cardinality({w \in Waits : waits[w].st = "pending"}) <= 1

\* C8: close() throws in no state and leaves the reference null and the
\* session ended; the socket is closed at most once, and close() on a session
\* already closed changes nothing.
C8_CloseIsSafeAndIdempotent ==
    [][CallClose =>
         /\ effect' \notin Threw
         /\ ws' = "null" /\ ended'
         /\ closeCalls' <= 1
         /\ (ws = "null" /\ ended) =>
               UNCHANGED << connVars, ws, readyState, partialCallback,
                            finalTranscript, ended, resolveTranscript,
                            rejectTranscript, waits, closeStreams, closeCalls,
                            delivered, received >>]_vars

\* a connected session after close(): the socket was closed once
C8_Witness ==
    viaProvider /\ ws = "null" /\ ended /\ closeCalls = 1 /\ readyState = "CLOSED"

\* C9 as stated: over all endAudio() calls of a session at most one
\* CloseStream frame is sent.
C9_AtMostOneCloseStream == closeStreams <= 1

\* C10: createSession returns the session only after its socket emitted open
\* and the handlers were installed; after an error before open it fails and
\* returns no session.
C10_OnlyConnectedSessionReturned ==
    /\ pc = "returned" =>
          openEmitted /\ handlers /\ connectPromise = "resolved"
    /\ connectPromise = "rejected" =>
          pc \in {"connecting", "failed"} /\ ~handlers /\ ~openEmitted

\* the session has been returned, open, with its handlers
C10_Witness == pc = "returned" /\ readyState = "OPEN" /\ handlers

\* what an observer registered from the start is handed: one chunk per
\* Results frame whose trimmed fragment is not empty, in order of arrival
Deliverable ==
    LET kept == SelectSeq(received, LAMBDA r : Trim(r.transcript) # Empty)
    IN [i \in 1..Len(kept) |->
          [text |-> Trim(kept[i].transcript), isFinal |-> kept[i].final]]

\* the chunks handed over are those of the frames that arrived since the
\* observer was registered
C11_Delivered ==
    LET all == Deliverable
        missed == Len(all) - Len(delivered)
    IN missed >= 0 /\ delivered = SubSeq(all, missed + 1, Len(all))

\* a step that takes in a Results frame with a non-empty fragment while an
\* observer is registered hands it exactly that chunk, after the earlier
\* ones; every other step hands over nothing
C11_Step ==
    LET last == received'[Len(received')]
    IN IF partialCallback /\ received' # received /\ Trim(last.transcript) # Empty
       THEN delivered' = Append(delivered, [text |-> Trim(last.transcript),
                                             isFinal |-> last.final])
       ELSE delivered' = delivered

\* C11: every Results frame with a non-empty fragment is handed to the
\* registered partial observer exactly once, tagged with whether it is final,
\* in the order of arrival; a frame with an empty fragment is not handed over.
C11_DeliveredOnceInOrder == [](C11_Delivered) /\ [][C11_Step]_vars

\* final "b", then interim "a", were delivered in that order
C11_Witness ==
    /\ Len(received) = 2
    /\ delivered = << [text |-> <<"b">>, isFinal |-> TRUE],
                      [text |-> <<"a">>, isFinal |-> FALSE] >>

\* the models and the timeout range the documentation names
DocumentedModels == {"nova-3", "nova-2", "nova", "enhanced", "base"}

InDocumentedRange(t) ==
    t.kind = "number" /\ t.value >= MinTimeoutMs /\ t.value <= MaxTimeoutMs

\* C12 as stated: validateConfig() returns exactly when the credential is
\* present, the model is a documented one and the timeout lies within
\* 1000..300000 ms, and throws on every other configuration.
C12_AcceptsExactlyValid ==
    lastCall.op = "validateConfig" =>
        (lastCall.threw = "none" <=>
            /\ config.apiKey # ""
            /\ config.model \in DocumentedModels
            /\ InDocumentedRange(config.timeoutMs))

\* the HTTP exchange succeeded
SuccessStatus(r) == r.kind = "response" /\ r.status >= 200 /\ r.status <= 299

\* the body is JSON whose top transcript is absent or blank
LacksTranscript(b) ==
    b.parses /\ (~b.hasTranscript \/ Trim(b.transcript) = Empty)

\* C13: transcribe() returns only on a success status with a top transcript
\* that is not empty after trimming, and then returns it trimmed; a
\* non-success status throws an error naming the status; a success status
\* with an absent or empty transcript throws "missing transcript".
C13_TranscribeSucceedsOnlyWithText ==
    lastCall.op = "transcribe" =>
        LET r == lastCall.res
            usable == /\ SuccessStatus(r)
                      /\ r.body.parses /\ r.body.hasTranscript
                      /\ Trim(r.body.transcript) # Empty
        IN /\ lastCall.threw = "none" <=> usable
           /\ usable => lastCall.text = Trim(r.body.transcript)
           /\ (r.kind = "response" /\ ~SuccessStatus(r)) =>
                 lastCall.threw = "httpStatus" /\ lastCall.status = r.status
           /\ (SuccessStatus(r) /\ LacksTranscript(r.body)) =>
                 lastCall.threw = "missingTranscript"

\* HTTP 200 with a blank transcript was refused as missing
C13_Witness ==
    /\ lastCall.op = "transcribe"
    /\ lastCall.res.status = 200
    /\ lastCall.res.body.hasTranscript
    /\ lastCall.res.body.transcript = <<" ">>
    /\ lastCall.threw = "missingTranscript"

\* C14: healthCheck() never throws; it returns true exactly when the probe
\* got HTTP 405 or a success status, and false for every other status and
\* when the request failed or timed out.
C14_HealthCheckIsBoolean ==
    lastCall.op = "healthCheck" =>
        /\ lastCall.threw = "none"
        /\ lastCall.healthy <=>
              \/ SuccessStatus(lastCall.res)
              \/ lastCall.res.kind = "response" /\ lastCall.res.status = 405

\* a probe answered with 405 counted as healthy
C14_Witness ==
    /\ lastCall.op = "healthCheck"
    /\ lastCall.res.status = 405
    /\ lastCall.healthy

\* wait w was settled by one of the finalization paths: resolved by an
\* UtteranceEnd frame or the transport close, or rejected by its timer
Finalized(w) == waits[w].st \in {"resolved", "timeout"}

\* C15 as stated: a finalization path (UtteranceEnd after end-of-audio,
\* transport close after end-of-audio, wait timeout) invokes the resolver or
\* rejecter of a wait only if no finalization path has settled that wait before.
C15_NoSecondInvocation ==
    [][/\ (onMessage(UtteranceEndMsg) /\ UtteranceFinalizes /\ resolveTranscript # 0) =>
             ~Finalized(resolveTranscript)
       /\ (onClose /\ handlers /\ CloseFinalizes) => ~Finalized(resolveTranscript)
       /\ \A w \in 1..MaxWaits : onTimeout(w) => ~Finalized(w)]_vars

\* C16 as stated: the timer of a wait is cancelled as soon as a path other
\* than the timer settles the wait (a resolution by UtteranceEnd or transport
\* close, a rejection by a transport error), so it cannot fire afterwards.
C16_TimerCancelledOnSettle ==
    \A w \in Waits : waits[w].st \in {"resolved", "error"} => ~waits[w].timer

\* C17: the first of the open and error events removes the other listener,
\* so connect()'s promise is settled once: by open, with the handlers
\* installed, or by error, with the handlers never installed.
C17_HandshakeSettlesOnce ==
    /\ connectSettles <= 1
    /\ connectPromise = "pending" => connectSettles = 0 /\ ~handlers
    /\ connectPromise = "resolved" =>
          /\ connectSettles = 1 /\ openEmitted /\ handlers
          /\ ~onOpenListener /\ ~onErrorListener
    /\ connectPromise = "rejected" =>
          /\ connectSettles = 1 /\ ~openEmitted /\ ~handlers
          /\ ~onOpenListener /\ ~onErrorListener

\* open won, and an error event came afterwards
C17_Witness ==
    /\ connectPromise = "resolved" /\ connectSettles = 1
    /\ readyState = "CLOSING" /\ closeCalls = 0

MalformedMsg == CHOOSE m \in OtherMsgs : m.type = "Malformed"

\* C18: a frame that does not parse changes nothing of the session: not the
\* accumulated text, the ended flag, the connection, the waits or the
\* deliveries; and the handler stays in place for the frames after it.
C18_MalformedIgnored ==
    [][onMessage(MalformedMsg) =>
         /\ UNCHANGED << connVars, ws, readyState, partialCallback,
                         finalTranscript, ended, resolveTranscript,
                         rejectTranscript, waits, closeStreams, closeCalls,
                         delivered, received >>
         /\ handlers' /\ readyState' \in {"OPEN", "CLOSING"}]_vars

\* a frame that did not parse arrived while a wait was unsettled and a chunk
\* had been delivered
C18_Witness ==
    /\ effect = "parseError"
    /\ Outstanding
    /\ Len(delivered) = 1

\* close() has run, or the session was ended without ever being connected
Closed == ws = "null" /\ ended

C19_State ==
    /\ pc = "constructed" => ws = "null"
    /\ Closed => readyState \notin {"CONNECTING", "OPEN"}

C19_Step ==
    /\ ended => ended'
    /\ (CallClose \/ \E w \in 1..MaxWaits : onTimeout(w)) => Closed'
    /\ Closed => Closed'

\* C19: the reference is null before connect and after close(); ended, once
\* true, stays true; a closed session stays closed: its reference stays null
\* and its socket is never connecting or open again.
C19_LifecycleMonotonic == [](C19_State) /\ [][C19_Step]_vars

\* a session closed by close(), on which audio was then refused
C19_Witness ==
    /\ viaProvider /\ Closed /\ closeCalls = 1
    /\ effect = "notConnected"

\* C20: an error event after open rejects the registered wait with the
\* transport error if it is unsettled, and otherwise leaves the waits alone;
\* it throws to no caller and leaves the accumulated text, the ended flag,
\* the connection reference and connect()'s result as they were.
C20_TransportErrorRejectsWait ==
    [][(onError /\ handlers) =>
         /\ IF rejectTranscript # 0 /\ waits[rejectTranscript].st = "pending"
            THEN waits' = [waits EXCEPT ![rejectTranscript].st = "error"]
            ELSE waits' = waits
         /\ effect' \notin Threw
         /\ UNCHANGED << finalTranscript, ended, ws, connectPromise,
                         resolveTranscript, rejectTranscript, delivered >>]_vars

\* a wait rejected by a transport error on a session that is neither ended nor closed
C20_Witness ==
    /\ ws # "null" /\ ~ended /\ readyState = "CLOSING"
    /\ \E w \in Waits : waits[w].st = "error"

\* C21: a wait is resolved only while the ended flag is set, that is, after
\* endAudio() or close(); no frame and no transport event resolves a wait
\* before end-of-audio was signalled.
C21_ResolvedOnlyAfterEnd ==
    \A w \in Waits : waits[w].st = "resolved" => ended

\* after endAudio() alone, with the socket never closed by the session, a
\* wait was resolved with the empty text
C21_Witness ==
    /\ ended /\ closeStreams = 1 /\ closeCalls = 0 /\ ws # "null"
    /\ \E w \in Waits : waits[w].st = "resolved" /\ waits[w].val = Empty

Pending(w) == w \in Waits /\ waits[w].st = "pending"

Settled(w) == w \in Waits /\ waits[w].st # "pending"

\* every wait is eventually resolved or rejected
C22_Settles == \A w \in 1..MaxWaits : Pending(w) ~> Settled(w)

\* wait w is no longer the registered one: a later call overwrote the pair
Overwritten(w) == resolveTranscript # w

\* wait w was asked for after a finalizing event had been processed: an
\* earlier wait was resolved, which happens only while it is the registered one
AfterFinalizing(w) == \E v \in 1..(w - 1) : waits[v].st = "resolved"

\* the step settles wait w, if at all, by its own timeout
OnlyByTimeout(w) == waits'[w].st \in {"pending", "timeout"}

\* C22 as stated: with timers that fire, every wait is eventually settled; a
\* wait asked for after the finalizing event (UtteranceEnd or transport
\* close) was processed, and a wait whose pair was overwritten, are settled
\* only by their own timeout.
C22_Original ==
    /\ C22_Settles
    /\ [][\A w \in Waits :
            (waits[w].st = "pending" /\ (Overwritten(w) \/ AfterFinalizing(w))) =>
               OnlyByTimeout(w)]_vars

\* C22, amended: with timers that fire, every wait is eventually settled; a
\* wait whose pair was overwritten, and a wait that is unsettled once the
\* transport close was processed, are settled only by their own timeout.
C22_EveryWaitSettles ==
    /\ C22_Settles
    /\ [][\A w \in Waits :
            (waits[w].st = "pending" /\ (Overwritten(w) \/ readyState = "CLOSED")) =>
               OnlyByTimeout(w)]_vars

\* the first wait, overwritten by the second, ended by its own timeout,
\* while the second was resolved
C22_Witness ==
    /\ Len(waits) = 2
    /\ waits[1].st = "timeout"
    /\ waits[2].st = "resolved"

====
